---- MODULE Spec2Model ----
(***************************************************************************)
(* Contextual retrieval and reranking engine of Cancer_AI:                 *)
(*   src/retrieval/embeddings.py   SolarEmbedder.encode                    *)
(*   src/retrieval/vector_store.py FaissIndex.search                       *)
(*   src/retrieval/retriever.py    title extraction, encyclopedia fetch,   *)
(*                                 reranking, context assembly             *)
(*   run.py                        load_resources and the query loop       *)
(*                                                                         *)
(* Text is a sequence of one-character strings, so that tokenizing,        *)
(* stripping, case conversion and splitting are computed character by      *)
(* character.  Python dicts are functions from key strings to values.      *)
(* Python exceptions are results whose status is the exception's name.     *)
(***************************************************************************)
EXTENDS Integers, Sequences, FiniteSets, TLC

VARIABLES
    phase,      \* run.py control state: "start", "loop", "ended", "exit1"; "unit" in the unit specifications
    vector_db,  \* the loaded FaissIndex (record) or [loaded |-> FALSE] for None
    inp,        \* the inputs of the most recent call
    out,        \* the outcome of the most recent call
    first       \* the outcome of the first call of the behaviour, kept for properties that compare calls

vars == <<phase, vector_db, inp, out, first>>

-----------------------------------------------------------------------------
(* Bounds of the model *)

MaxWords == 2      \* words per query in the title-extraction specification
MaxCand == 3       \* largest max_candidates tried
MaxPool == 3       \* largest candidate pool handed to rerank_results directly
MaxTopK == 3       \* largest top_k tried in the unit specifications
MaxMeta == 2       \* largest metadata store in the FaissIndex.search specification
MaxDim == 3        \* largest query-vector dimension tried
MaxFailAt == 2     \* latest encode call whose remote request may fail
MaxPages == 3      \* largest max_pages tried

-----------------------------------------------------------------------------
(* Characters and Python str methods *)

Lower == <<"a","b","c","d","e","f","g","h","i","j","k","l","m",
           "n","o","p","q","r","s","t","u","v","w","x","y","z">>
Upper == <<"A","B","C","D","E","F","G","H","I","J","K","L","M",
           "N","O","P","Q","R","S","T","U","V","W","X","Y","Z">>
LowerSet == {Lower[i] : i \in 1..Len(Lower)}
UpperSet == {Upper[i] : i \in 1..Len(Upper)}
DigitSet == {"0","1","2","3","4","5","6","7","8","9"}
Whitespace == {" ", "\n", "\t"}

IndexOf(c, seq) == CHOOSE i \in 1..Len(seq) : seq[i] = c

char_lower(c) == IF c \in UpperSet THEN Lower[IndexOf(c, Upper)] ELSE c
char_upper(c) == IF c \in LowerSet THEN Upper[IndexOf(c, Lower)] ELSE c
IsCased(c) == c \in LowerSet \cup UpperSet
IsAlnum(c) == c \in LowerSet \cup UpperSet \cup DigitSet

\* str.lower()
str_lower(s) == [i \in 1..Len(s) |-> char_lower(s[i])]

\* str.isupper(): at least one cased character and no lowercase one
str_isupper(s) ==
    /\ \E i \in 1..Len(s) : IsCased(s[i])
    /\ \A i \in 1..Len(s) : s[i] \notin LowerSet

\* str.title(): a cased character is uppercased when the previous character
\* is not cased, and lowercased otherwise
str_title(s) ==
    [i \in 1..Len(s) |->
        IF i > 1 /\ IsCased(s[i-1]) THEN char_lower(s[i]) ELSE char_upper(s[i])]

\* str.strip()
RECURSIVE lstrip(_)
lstrip(s) == IF s # <<>> /\ Head(s) \in Whitespace THEN lstrip(Tail(s)) ELSE s
RECURSIVE rstrip(_)
rstrip(s) ==
    IF s # <<>> /\ s[Len(s)] \in Whitespace THEN rstrip(SubSeq(s, 1, Len(s) - 1)) ELSE s
str_strip(s) == rstrip(lstrip(s))

\* str.split("\n")
RECURSIVE SplitFrom(_, _)
SplitFrom(s, start) ==
    LET ends == {j \in start..Len(s) : s[j] = "\n"} IN
    IF ends = {} THEN <<SubSeq(s, start, Len(s))>>
    ELSE LET e == CHOOSE j \in ends : \A k \in ends : j <= k
         IN <<SubSeq(s, start, e - 1)>> \o SplitFrom(s, e + 1)
str_split_lines(s) == SplitFrom(s, 1)

\* the Python str of a character sequence
RECURSIVE Str(_)
Str(s) == IF s = <<>> THEN "" ELSE Head(s) \o Str(Tail(s))

\* seq[:n] of Python, for any integer n
PySlice(seq, n) ==
    IF n >= 0 THEN SubSeq(seq, 1, IF n < Len(seq) THEN n ELSE Len(seq))
    ELSE SubSeq(seq, 1, IF Len(seq) + n > 0 THEN Len(seq) + n ELSE 0)

Range(seq) == {seq[i] : i \in 1..Len(seq)}

RECURSIVE Flatten(_)
Flatten(ss) == IF ss = <<>> THEN <<>> ELSE Head(ss) \o Flatten(Tail(ss))

-----------------------------------------------------------------------------
(* retriever.py: title extraction *)

_STOPWORDS == {
    "what", "which", "that", "this", "these", "those",
    "who", "whom", "whose", "where", "when", "why", "how",
    "does", "do", "did", "is", "are", "was", "were", "be",
    "an", "a", "the", "of", "and", "or", "in", "on", "for",
    "to", "from", "with", "as", "by", "about", "describe", "explain" }

\* re.findall(r"[A-Za-z0-9][A-Za-z0-9\-']*", text): leftmost, greedy,
\* non-overlapping matches
RECURSIVE TokensFrom(_, _, _, _)
TokensFrom(text, i, cur, acc) ==
    IF i > Len(text) THEN (IF cur = <<>> THEN acc ELSE Append(acc, cur))
    ELSE LET c == text[i] IN
         IF cur = <<>>
         THEN IF IsAlnum(c) THEN TokensFrom(text, i + 1, <<c>>, acc)
                            ELSE TokensFrom(text, i + 1, <<>>, acc)
         ELSE IF IsAlnum(c) \/ c \in {"-", "'"}
              THEN TokensFrom(text, i + 1, Append(cur, c), acc)
              ELSE TokensFrom(text, i + 1, <<>>, Append(acc, cur))

_tokenize_bio(text) ==
    SelectSeq(TokensFrom(text, 1, <<>>, <<>>), LAMBDA t : str_strip(t) # <<>>)

\* the bigram loop of extract_candidate_titles
Bigrams(tokens) ==
    LET all == [i \in 1..(Len(tokens) - 1) |-> tokens[i] \o <<" ">> \o tokens[i + 1]]
    IN SelectSeq(all, LAMBDA b : Len(b) > 4)

\* the unigram loop of extract_candidate_titles
KeepUnigram(t) ==
    /\ Str(str_lower(t)) \notin _STOPWORDS
    /\ \/ Len(t) >= 4
       \/ \E i \in 1..Len(t) : t[i] \in DigitSet
       \/ str_isupper(t)

Unigrams(tokens) == SelectSeq(tokens, KeepUnigram)

TitleCase(c) == IF str_isupper(c) THEN c ELSE str_title(c)

\* the seen-set loop of extract_candidate_titles
RECURSIVE DedupNoSeen(_, _)
DedupNoSeen(cands, acc) ==
    IF cands = <<>> THEN acc
    ELSE DedupNoSeen(Tail(cands), Append(acc, TitleCase(Head(cands))))

RECURSIVE Dedup(_, _)
Dedup(cands, acc) ==
    IF cands = <<>> THEN acc
    ELSE LET c_fmt == TitleCase(Head(cands)) IN
         IF c_fmt \in Range(acc) THEN Dedup(Tail(cands), acc)
         ELSE Dedup(Tail(cands), Append(acc, c_fmt))

extract_candidate_titles(query, max_candidates) ==
    LET tokens == _tokenize_bio(query) IN
    IF tokens = <<>> THEN <<>>
    ELSE PySlice(Dedup(Bigrams(tokens) \o Unigrams(tokens), <<>>), max_candidates)

-----------------------------------------------------------------------------
(* Inputs of the title-extraction specification *)

Words == {
    <<"E","G","F","R">>,
    <<"e","g","f","r">>,
    <<"m","u","t","a","t","i","o","n">>,
    <<"o","f">>,
    <<"T","1">>,
    <<"x","-","r","a","y","?">>,
    <<"?">> }

\* one to n words joined by single spaces
RECURSIVE QueriesOf(_)
QueriesOf(n) ==
    IF n = 0 THEN {}
    ELSE IF n = 1 THEN Words
    ELSE LET shorter == QueriesOf(n - 1) IN
         shorter \cup {q \o <<" ">> \o w : q \in shorter, w \in Words}

TitleQueries == QueriesOf(MaxWords)

NoCall == [status |-> "none"]
NoDb == [loaded |-> FALSE]

InitTitles ==
    /\ phase = "unit"
    /\ vector_db = NoDb
    /\ inp \in {[query |-> q] : q \in TitleQueries}
    /\ out = NoCall
    /\ first = NoCall

ExtractTitles ==
    /\ phase = "unit"
    /\ \E m \in 0..MaxCand :
        /\ out' = [status |-> "ok", max_candidates |-> m,
                   value |-> extract_candidate_titles(inp.query, m)]
        /\ first' = IF first.status = "none" THEN out' ELSE first
    /\ UNCHANGED <<phase, vector_db, inp>>

NextTitles == ExtractTitles

SpecTitles == InitTitles /\ [][NextTitles]_vars

\* C9: for a non-empty query and max_candidates >= 0, extract_candidate_titles
\* returns at most max_candidates titles, no two equal, and a repeated call
\* with the same arguments returns the same sequence as the first one did.
C9_TitlesBoundedDistinctDeterministic ==
    (out.status = "ok" /\ inp.query # <<>>) =>
        /\ Len(out.value) <= out.max_candidates
        /\ \A i, j \in 1..Len(out.value) : i # j => out.value[i] # out.value[j]
        /\ (first.max_candidates = out.max_candidates => out.value = first.value)

\* a call whose candidate list held a duplicate and more than max_candidates
\* entries, made after an earlier call with another max_candidates
C9_Witness ==
    /\ out.status = "ok"
    /\ inp.query = <<"e","g","f","r"," ","e","g","f","r">>
    /\ out.max_candidates = 1
    /\ first.max_candidates = 2
    /\ out.value = << <<"E","g","f","r"," ","E","g","f","r">> >>
    /\ first.value = << <<"E","g","f","r"," ","E","g","f","r">>, <<"E","g","f","r">> >>

-----------------------------------------------------------------------------
(* Python dicts *)

DictGet(d, k, default) == IF k \in DOMAIN d THEN d[k] ELSE default

\* {**base, **upd}
DictUpdate(base, upd) ==
    [k \in DOMAIN base \cup DOMAIN upd |-> IF k \in DOMAIN upd THEN upd[k] ELSE base[k]]

DictSet(d, k, v) == [x \in DOMAIN d \cup {k} |-> IF x = k THEN v ELSE d[x]]

-----------------------------------------------------------------------------
(* embeddings.py: SolarEmbedder.encode *)

\* A vector is a sequence of integers; a component v stands for v / Unit.
Unit == 5
EmbDim == 2

Dot(a, b) ==
    LET n == IF Len(a) < Len(b) THEN Len(a) ELSE Len(b)
        RECURSIVE Sum(_)
        Sum(i) == IF i = 0 THEN 0 ELSE a[i] * b[i] + Sum(i - 1)
    IN Sum(n)

\* numpy.linalg.norm of a vector whose norm is a whole number
Norm(v) == CHOOSE n \in 0..(Dot(v, v)) : n * n = Dot(v, v)

\* arr / np.clip(norms, 1e-12, None): an all-zero vector stays all-zero
Normalize(v) ==
    LET n == Norm(v) IN [i \in 1..Len(v) |-> IF n = 0 THEN 0 ELSE (v[i] * Unit) \div n]

\* self.model.embed_query(t): the remote model, a fixed function of the text;
\* here it reads the first character of the text
embed_query(t) ==
    LET c == char_lower(Head(str_strip(t))) IN
    CASE c = "e" -> <<3, 0>>
      [] c = "m" -> <<0, 2>>
      [] c = "t" -> <<3, 4>>
      [] c = "x" -> <<8, 6>>
      [] c = "o" -> <<-1, 0>>
      [] c = "z" -> <<0, 0>>
      [] OTHER   -> <<0, -2>>

\* encode(texts) for a single string; remote_ok is whether the remote call
\* succeeds.  The result is the (N, D) array as a sequence of rows.
encode(text, remote_ok) ==
    LET texts == <<text>>
        valid_texts == SelectSeq(texts, LAMBDA t : str_strip(t) # <<>>)
    IN IF valid_texts = <<>> THEN <<>>
       ELSE IF ~remote_ok THEN <<>>
       ELSE [i \in 1..Len(valid_texts) |-> Normalize(embed_query(valid_texts[i]))]

-----------------------------------------------------------------------------
(* vector_store.py: FaissIndex *)

\* the score faiss reports with the "no match" id -1
NegInf == -1000

\* list.sort(key=score, reverse=True) and faiss' ordering by inner product:
\* descending, equal scores keep their order
RECURSIVE InsertDesc(_, _)
InsertDesc(sorted, x) ==
    IF sorted = <<>> THEN <<x>>
    ELSE IF Head(sorted).score >= x.score THEN <<Head(sorted)>> \o InsertDesc(Tail(sorted), x)
    ELSE <<x>> \o sorted

RECURSIVE SortDescFrom(_, _)
SortDescFrom(items, acc) ==
    IF items = <<>> THEN acc ELSE SortDescFrom(Tail(items), InsertDesc(acc, Head(items)))

SortDesc(items) == SortDescFrom(items, <<>>)

Perms(n) == {p \in [1..n -> 1..n] : \A i, j \in 1..n : i # j => p[i] # p[j]}

\* self.index.search(query_emb, top_k) of the faiss library: the top_k
\* entries by inner product, padded with id -1.  Which of two entries of
\* equal score comes first is the library's choice: tie is a permutation of
\* the entries that decides it.
index_search(db, query_emb, top_k, tie) ==
    LET n == Len(db.entries)
        hits == [i \in 1..n |->
                    [score |-> Dot(query_emb, db.entries[tie[i]].vec),
                     idx |-> db.entries[tie[i]].id]]
        ranked == SortDesc(hits)
    IN [i \in 1..top_k |-> IF i <= n THEN ranked[i] ELSE [score |-> NegInf, idx |-> -1]]

\* self.metadata[idx] of a Python list: a negative idx counts from the end
MetaAt(metadata, idx) ==
    IF idx >= 0 THEN metadata[idx + 1] ELSE metadata[Len(metadata) + idx + 1]

MetaInList(metadata, idx) ==
    IF idx >= 0 THEN idx < Len(metadata) ELSE Len(metadata) + idx >= 0

\* the loop over zip(scores[0], idxs[0]) of FaissIndex.search
RECURSIVE FilterHits(_, _, _, _)
FilterHits(metadata, raw, results, derefs) ==
    IF raw = <<>> THEN [status |-> "ok", value |-> results, derefs |-> derefs]
    ELSE LET score == Head(raw).score
             idx == Head(raw).idx
         IN IF idx = -1 \/ idx >= Len(metadata)
            THEN FilterHits(metadata, Tail(raw), results, derefs)
            ELSE IF ~MetaInList(metadata, idx)
            THEN [status |-> "IndexError", value |-> results, derefs |-> Append(derefs, idx)]
            ELSE LET meta == MetaAt(metadata, idx)
                     row == DictUpdate([score |-> score, text |-> DictGet(meta, "text", <<>>)], meta)
                 IN FilterHits(metadata, Tail(raw), Append(results, row), Append(derefs, idx))

\* FaissIndex.search from the index call on; raw is what self.index.search
\* returned
SearchHits(metadata, raw) ==
    DictUpdate(FilterHits(metadata, raw, <<>>, <<>>), [raw |-> raw, index_calls |-> 1])

\* results.append(meta): the store's own row is handed out as the result
ResultObject_Alias(metadata, idx) ==
    IF idx >= 0 THEN idx + 1 ELSE Len(metadata) + idx + 1

\* results.append({"score": ..., "text": ..., **meta}): which object the
\* appended result is.  The dict display builds a new dict, so the result is
\* no row of self.metadata: 0.  (A row of the store would be named by its
\* position in the list, from 1.)
ResultObject(metadata, idx) == 0

\* the objects of the results of a FaissIndex.search call that returned r
ResultObjects(metadata, r) ==
    [i \in 1..Len(r.value) |-> ResultObject(metadata, r.derefs[i])]

\* FaissIndex.search without the dimension check
search_NoDimCheck(db, query_emb, top_k, tie) ==
    SearchHits(db.metadata, index_search(db, query_emb, top_k, tie))

\* FaissIndex.search(query_emb, top_k) for a one-dimensional query_emb
search(db, query_emb, top_k, tie) ==
    IF Len(query_emb) # db.d
    THEN [status |-> "ValueError", value |-> <<>>, derefs |-> <<>>,
          raw |-> <<>>, index_calls |-> 0]
    ELSE SearchHits(db.metadata, index_search(db, query_emb, top_k, tie))

-----------------------------------------------------------------------------
(* retriever.py: search_faiss_index, search_wikipedia_chunks, rerank_results,
   get_relevant_context *)

\* Program constants of get_relevant_context and search_wikipedia_chunks
TopKIndex == 4
WikiPages == 2
TopKFinal == 6
ParasPerPage == 3
MinParaLen == 50

\* The embedder is called several times during one query; fail_at is the
\* number of the encode call whose remote request fails (0: none fails), and
\* n counts the encode calls made so far.

\* the tag is set only where the metadata row brought no source of its own
StampSource_KeepExisting(results, source_tag) ==
    [i \in 1..Len(results) |->
        IF "source" \in DOMAIN results[i] THEN results[i]
        ELSE DictSet(results[i], "source", source_tag)]

\* for r in results: r["source"] = source_tag
StampSource(results, source_tag) ==
    [i \in 1..Len(results) |-> DictSet(results[i], "source", source_tag)]

\* search_faiss_index once index.search has returned r (or raised)
FaissResults(r, source_tag) ==
    IF r.status # "ok"
    THEN [status |-> r.status, where |-> "index.search", value |-> <<>>,
          embed_calls |-> 1, index_calls |-> r.index_calls]
    ELSE [status |-> "ok", where |-> "", value |-> StampSource(r.value, source_tag),
          embed_calls |-> 1, index_calls |-> r.index_calls]

\* search_faiss_index once embedder.encode(query) has returned q
FaissWithQuery(q, db, top_k, source_tag, tie) ==
    IF q = <<>>
    THEN [status |-> "IndexError", where |-> "encode(query)[0]", value |-> <<>>,
          embed_calls |-> 1, index_calls |-> 0]
    ELSE FaissResults(search(db, q[1], top_k, tie), source_tag)

\* search_faiss_index(query, embedder, index, top_k, source_tag)
search_faiss_index(query, db, top_k, source_tag, fail_at, tie) ==
    FaissWithQuery(encode(query, fail_at # 1), db, top_k, source_tag, tie)

\* What the encyclopedia answers for one title
WikiMissing == [kind |-> "missing"]
WikiError == [kind |-> "error"]
WikiPage(text) == [kind |-> "page", text |-> text]

\* the chunks of a page without the [:3] slice: every long paragraph
PageChunks_NoCap(title, text) ==
    LET paragraphs == SelectSeq(str_split_lines(text),
                                LAMBDA p : Len(str_strip(p)) > MinParaLen)
    IN [i \in 1..Len(paragraphs) |->
            [text |-> paragraphs[i],
             source |-> "Wikipedia (" \o Str(title) \o ")",
             title |-> title]]

\* the paragraphs of a page that search_wikipedia_chunks turns into chunks
PageChunks(title, text) ==
    LET paragraphs == SelectSeq(str_split_lines(text),
                                LAMBDA p : Len(str_strip(p)) > MinParaLen)
        top == PySlice(paragraphs, ParasPerPage)
    IN [i \in 1..Len(top) |->
            [text |-> top[i],
             source |-> "Wikipedia (" \o Str(title) \o ")",
             title |-> title]]

\* the loop over the candidate titles; wiki[i] is the answer for the i-th one
RECURSIVE WikiLoop(_, _, _, _)
WikiLoop(candidates, wiki, i, chunks) ==
    IF i > Len(candidates)
    THEN [status |-> "ok", value |-> chunks, probed |-> i - 1]
    ELSE IF wiki[i].kind = "error"
    THEN [status |-> "ConnectionError", value |-> <<>>, probed |-> i]
    ELSE IF wiki[i].kind = "missing"
    THEN WikiLoop(candidates, wiki, i + 1, chunks)
    ELSE WikiLoop(candidates, wiki, i + 1, chunks \o PageChunks(candidates[i], wiki[i].text))

\* search_wikipedia_chunks(query, max_pages)
search_wikipedia_chunks(query, max_pages, wiki) ==
    LET candidates == extract_candidate_titles(query, max_pages) IN
    IF candidates = <<>> THEN [status |-> "ok", value |-> <<>>, probed |-> 0]
    ELSE WikiLoop(candidates, wiki, 1, <<>>)

\* the scoring loop of rerank_results
RECURSIVE ScoreLoop(_, _, _, _, _)
ScoreLoop(q_emb, candidates, n, fail_at, scored_items) ==
    IF candidates = <<>>
    THEN [status |-> "ok", where |-> "", value |-> scored_items, embed_calls |-> n]
    ELSE LET item == Head(candidates)
             c_text == DictGet(item, "text", <<>>)
             c == encode(c_text, fail_at # n + 1)
         IN IF c = <<>>
            THEN [status |-> "IndexError", where |-> "encode(c_text)[0]", value |-> <<>>,
                  embed_calls |-> n + 1]
            ELSE ScoreLoop(q_emb, Tail(candidates), n + 1, fail_at,
                           Append(scored_items, DictSet(item, "score", Dot(q_emb, c[1]))))

\* item["score"] = score assigns in place: the dicts of the pool as the
\* scoring loop leaves them, scored up to the item whose embedding is empty
RECURSIVE ScoreWrites(_, _, _, _)
ScoreWrites(q_emb, candidates, n, fail_at) ==
    IF candidates = <<>> THEN <<>>
    ELSE IF encode(DictGet(Head(candidates), "text", <<>>), fail_at # n + 1) = <<>>
    THEN candidates
    ELSE <<DictSet(Head(candidates), "score",
                   Dot(q_emb, encode(DictGet(Head(candidates), "text", <<>>), TRUE)[1]))>>
         \o ScoreWrites(q_emb, Tail(candidates), n + 1, fail_at)

\* the dicts of the pool after rerank_results, q being what
\* embedder.encode(query) returned
PoolWithQuery(q, candidates, n, fail_at) ==
    IF q = <<>> THEN candidates ELSE ScoreWrites(q[1], candidates, n + 1, fail_at)

\* the dicts of the pool after rerank_results(query, candidates, ...)
PoolAfterRerank(query, candidates, n, fail_at) ==
    IF candidates = <<>> THEN candidates
    ELSE PoolWithQuery(encode(query, fail_at # n + 1), candidates, n, fail_at)

\* list.sort without the sort: the items stay in pool order
SortDesc_Unsorted(items) == items

\* a descending sort that is not stable: items of equal score come out in
\* the reverse of their pool order
SortDesc_TiesReversed(items) ==
    SortDesc([i \in 1..Len(items) |-> items[Len(items) + 1 - i]])

\* scored_items.sort(key=lambda x: x["score"], reverse=True)
SortScored(items) == SortDesc(items)

\* the sort and the slice that end rerank_results; r is what the scoring
\* loop produced
RankScored(r, top_k) ==
    IF r.status # "ok" THEN r
    ELSE [status |-> "ok", where |-> "", value |-> PySlice(SortScored(r.value), top_k),
          embed_calls |-> r.embed_calls]

\* rerank_results once embedder.encode(query) has returned q
RerankWithQuery(q, candidates, top_k, n, fail_at) ==
    IF q = <<>>
    THEN [status |-> "IndexError", where |-> "encode(query)[0]", value |-> <<>>,
          embed_calls |-> n + 1]
    ELSE RankScored(ScoreLoop(q[1], candidates, n + 1, fail_at, <<>>), top_k)

\* rerank_results from the query embedding on
rerank_body(query, candidates, top_k, n, fail_at) ==
    RerankWithQuery(encode(query, fail_at # n + 1), candidates, top_k, n, fail_at)

\* rerank_results without the early return on an empty pool
rerank_results_NoEarlyReturn(query, candidates, top_k, n, fail_at) ==
    rerank_body(query, candidates, top_k, n, fail_at)

\* rerank_results(query, candidates, embedder, top_k)
rerank_results(query, candidates, top_k, n, fail_at) ==
    IF candidates = <<>>
    THEN [status |-> "ok", where |-> "", value |-> <<>>, embed_calls |-> n]
    ELSE rerank_body(query, candidates, top_k, n, fail_at)

NoDocuments == "No relevant documents found."

\* f"[{source}]\n{text}" of one chunk
FormatChunk(chunk) ==
    "[" \o DictGet(chunk, "source", "Unknown") \o "]\n"
        \o Str(str_strip(DictGet(chunk, "text", <<>>)))

\* sep.join(parts)
RECURSIVE Join(_, _)
Join(sep, parts) ==
    IF parts = <<>> THEN ""
    ELSE IF Len(parts) = 1 THEN parts[1]
    ELSE parts[1] \o sep \o Join(sep, Tail(parts))

\* the join without the check for an empty list
FinalContext_NoSentinel(formatted_context) == Join("\n\n", formatted_context)

\* the return value of get_relevant_context
FinalContext(formatted_context) ==
    IF formatted_context = <<>> THEN NoDocuments ELSE Join("\n\n", formatted_context)

ContextResult(status, where, value, blocks, pool, best, embed_calls, index_calls) ==
    [status |-> status, where |-> where, value |-> value, blocks |-> blocks,
     pool |-> pool, best |-> best, embed_calls |-> embed_calls,
     index_calls |-> index_calls]

\* step 4 of get_relevant_context: the blocks of the reranked chunks
Formatted(best_chunks) == [i \in 1..Len(best_chunks) |-> FormatChunk(best_chunks[i])]

\* get_relevant_context once rerank_results has returned r (or raised)
ContextAfterRerank(f, all_chunks, r) ==
    IF r.status # "ok"
    THEN ContextResult(r.status, r.where, "", <<>>, all_chunks, <<>>, r.embed_calls, f.index_calls)
    ELSE ContextResult("ok", "", FinalContext(Formatted(r.value)), Formatted(r.value),
                       all_chunks, r.value, r.embed_calls, f.index_calls)

\* step 3 of get_relevant_context: the pool is reranked
ContextOfPool(query, f, all_chunks, fail_at) ==
    ContextAfterRerank(f, all_chunks,
                       rerank_results(query, all_chunks, TopKFinal, f.embed_calls, fail_at))

\* get_relevant_context once search_wikipedia_chunks has returned w (or raised)
ContextAfterWiki(query, f, w, fail_at) ==
    IF w.status # "ok"
    THEN ContextResult(w.status, "wiki.page", "", <<>>, <<>>, <<>>, f.embed_calls, f.index_calls)
    ELSE ContextOfPool(query, f, f.value \o w.value, fail_at)

\* get_relevant_context once search_faiss_index has returned f (or raised)
ContextAfterIndex(query, use_wiki, env, f) ==
    IF f.status # "ok"
    THEN ContextResult(f.status, f.where, "", <<>>, <<>>, <<>>, f.embed_calls, f.index_calls)
    ELSE ContextAfterWiki(query, f,
                          IF use_wiki THEN search_wikipedia_chunks(query, WikiPages, env.wiki)
                          ELSE [status |-> "ok", value |-> <<>>, probed |-> 0],
                          env.fail_at)

\* get_relevant_context(query, embedder, vector_db, use_wiki); env holds what
\* the collaborators do during the call: fail_at, tie and wiki
get_relevant_context(query, db, use_wiki, env) ==
    ContextAfterIndex(query, use_wiki, env,
                      IF db.loaded
                      THEN search_faiss_index(query, db, TopKIndex, "Paper_DB", env.fail_at, env.tie)
                      ELSE [status |-> "ok", where |-> "", value |-> <<>>,
                            embed_calls |-> 0, index_calls |-> 0])

\* The in-place writes of a query (r["source"] = source_tag, item["score"] =
\* score) reach self.metadata where a written dict is a row of that list.

\* self.metadata after the writes: objs[i] is the object of the i-th index
\* result and dicts[i] is what the call left in it
WriteBack(metadata, objs, dicts) ==
    [s \in 1..Len(metadata) |->
        IF \E i \in 1..Len(objs) : objs[i] = s
        THEN dicts[CHOOSE i \in 1..Len(objs) :
                        objs[i] = s /\ \A j \in 1..Len(objs) : objs[j] = s => j <= i]
        ELSE metadata[s]]

\* the index-sourced dicts at the end of get_relevant_context; f is what
\* search_faiss_index returned and w what search_wikipedia_chunks did
IndexChunksAfter(query, f, w, fail_at) ==
    IF w.status # "ok" THEN f.value
    ELSE PySlice(PoolAfterRerank(query, f.value \o w.value, f.embed_calls, fail_at),
                 Len(f.value))

DbAfterStamp(query, db, use_wiki, env, objs, f) ==
    [db EXCEPT !.metadata =
        WriteBack(db.metadata, objs,
                  IndexChunksAfter(query, f,
                                   IF use_wiki
                                   THEN search_wikipedia_chunks(query, WikiPages, env.wiki)
                                   ELSE [status |-> "ok", value |-> <<>>, probed |-> 0],
                                   env.fail_at))]

\* the index once FaissIndex.search has returned r (or raised)
DbAfterHits(query, db, use_wiki, env, r) ==
    IF r.status # "ok" THEN db
    ELSE DbAfterStamp(query, db, use_wiki, env, ResultObjects(db.metadata, r),
                      FaissResults(r, "Paper_DB"))

\* the index once embedder.encode(query) has returned q
DbAfterQuery(query, db, use_wiki, env, q) ==
    IF q = <<>> THEN db
    ELSE DbAfterHits(query, db, use_wiki, env, search(db, q[1], TopKIndex, env.tie))

\* vector_db as get_relevant_context(query, embedder, vector_db, use_wiki)
\* leaves it
vector_db_after(query, db, use_wiki, env) ==
    IF ~db.loaded THEN db
    ELSE DbAfterQuery(query, db, use_wiki, env, encode(query, env.fail_at # 1))

-----------------------------------------------------------------------------
(* Inputs of the FaissIndex.search specification *)

TextEgfr == <<"e","g","f","r"," ","d","o","c">>
TextMutation == <<"m","u","t","a","t","i","o","n"," ","d","o","c"," ">>
TextTumor == <<" ","t","u","m","o","r">>
TextBlank == <<" ">>

\* rows of the metadata .jsonl file
MetaRows == {
    [text |-> TextEgfr],
    [text |-> TextMutation, source |-> "PubMed"],
    [title |-> "untitled"] }

SeqsUpTo(S, n) == UNION {[1..k -> S] : k \in 0..n}

\* the vectors and ids of an index file: flat indexes number their vectors
\* 0..n-1, an IndexIDMap carries the ids it was built with
IndexEntries == {
    <<>>,
    <<[id |-> 0, vec |-> <<5, 0>>]>>,
    <<[id |-> 0, vec |-> <<5, 0>>], [id |-> 1, vec |-> <<0, 5>>]>>,
    <<[id |-> 0, vec |-> <<5, 0>>], [id |-> 1, vec |-> <<5, 0>>], [id |-> 2, vec |-> <<3, 4>>]>>,
    <<[id |-> -2, vec |-> <<5, 0>>], [id |-> 1, vec |-> <<0, 5>>]>>,
    <<[id |-> 5, vec |-> <<3, 4>>], [id |-> 0, vec |-> <<5, 0>>]>> }

SearchDbs ==
    {[loaded |-> TRUE, d |-> EmbDim, entries |-> e, metadata |-> m] :
        e \in IndexEntries, m \in SeqsUpTo(MetaRows, MaxMeta)}

QueryVecs(n) ==
    IF n = EmbDim THEN {<<5, 0>>, <<0, 5>>, <<3, 4>>}
    ELSE {[i \in 1..n |-> IF i = 1 THEN 5 ELSE 0]}

InitSearch ==
    /\ phase = "unit"
    /\ vector_db \in SearchDbs
    /\ inp \in {[query_emb |-> q, top_k |-> k] :
                    q \in UNION {QueryVecs(n) : n \in 0..MaxDim}, k \in 1..MaxTopK}
    /\ out = NoCall
    /\ first = NoCall

Search ==
    /\ phase = "unit"
    /\ \E tie \in Perms(Len(vector_db.entries)) :
        out' = search(vector_db, inp.query_emb, inp.top_k, tie)
    /\ UNCHANGED <<phase, vector_db, inp, first>>

NextSearch == Search

SpecSearch == InitSearch /\ [][NextSearch]_vars

InRange(idx) == 0 <= idx /\ idx < Len(vector_db.metadata)

\* the passage FaissIndex.search builds from an in-range raw hit
RowOf(hit) ==
    LET meta == vector_db.metadata[hit.idx + 1]
    IN DictUpdate([score |-> hit.score, text |-> DictGet(meta, "text", <<>>)], meta)

\* C2: FaissIndex.search dereferences metadata only with ids in
\* [0, len(metadata)); it returns the passages of exactly the raw hits with
\* such an id, in raw order, and drops every other raw hit.
C2_OnlyInRangeSlotsDereferenced ==
    (out.status \notin {"none", "ValueError"}) =>
        LET kept == SelectSeq(out.raw, LAMBDA h : InRange(h.idx)) IN
        /\ \A i \in 1..Len(out.derefs) : InRange(out.derefs[i])
        /\ out.status = "ok"
        /\ out.value = [j \in 1..Len(kept) |-> RowOf(kept[j])]

\* C3: a query vector whose dimension differs from the index dimension gets
\* the dimension-mismatch error, which no other call gets, and the index is
\* not searched on that call.
C3_DimensionMismatchReported ==
    (out.status # "none") =>
        /\ (Len(inp.query_emb) # vector_db.d) <=> (out.status = "ValueError")
        /\ (Len(inp.query_emb) # vector_db.d) => out.index_calls = 0

\* a three-dimensional query against the two-dimensional index of two
\* documents was refused
C3_Witness ==
    /\ out.status = "ValueError"
    /\ Len(inp.query_emb) = 3
    /\ Len(vector_db.entries) = 2
    /\ out.index_calls = 0

-----------------------------------------------------------------------------
(* Inputs of the rerank_results specification *)

QueryEgfr == <<"E","G","F","R"," ","m","u","t","a","t","i","o","n">>
QueryTumor == <<"t","u","m","o","r">>
QueryOf == <<"o","f">>
QueryBlank == <<" "," ">>

TextXray == <<"x","-","r","a","y">>

\* passages as the two sources produce them
Candidates == {
    [text |-> TextEgfr, source |-> "Paper_DB", score |-> 7],
    [text |-> TextMutation, source |-> "Paper_DB", score |-> 3],
    [text |-> TextTumor, source |-> "Wikipedia (Tumor)", title |-> <<"T","u","m","o","r">>],
    [text |-> TextXray, source |-> "Wikipedia (X-Ray)", title |-> <<"X","-","R","a","y">>],
    [text |-> TextBlank, source |-> "Paper_DB", score |-> 1],
    [source |-> "Paper_DB", score |-> 2] }

InitRerank ==
    /\ phase = "unit"
    /\ vector_db = NoDb
    /\ inp \in {[query |-> q, candidates |-> c, top_k |-> k] :
                    q \in {QueryEgfr, QueryTumor, QueryBlank},
                    c \in SeqsUpTo(Candidates, MaxPool),
                    k \in 0..MaxTopK}
    /\ out = NoCall
    /\ first = NoCall

Rerank ==
    /\ phase = "unit"
    /\ \E fail_at \in 0..MaxFailAt :
        out' = DictSet(rerank_results(inp.query, inp.candidates, inp.top_k, 0, fail_at),
                       "fail_at", fail_at)
    /\ UNCHANGED <<phase, vector_db, inp, first>>

NextRerank == Rerank

SpecRerank == InitRerank /\ [][NextRerank]_vars

\* the score of a candidate: the dot product of the two embeddings
ScoreOf(query, c) == Dot(Normalize(embed_query(query)), Normalize(embed_query(c.text)))

HasText(c) == "text" \in DOMAIN c /\ str_strip(c.text) # <<>>

\* every embedding of the call succeeds and no two candidates score the same
DistinctScoresAllEmbedded ==
    /\ out.status # "none"
    /\ out.fail_at \notin 1..(Len(inp.candidates) + 1)
    /\ str_strip(inp.query) # <<>>
    /\ \A i \in 1..Len(inp.candidates) : HasText(inp.candidates[i])
    /\ \A i, j \in 1..Len(inp.candidates) :
          i # j => ScoreOf(inp.query, inp.candidates[i]) # ScoreOf(inp.query, inp.candidates[j])

\* C1: with N candidates of distinct scores, all embedded, rerank_results
\* returns exactly min(N, top_k) of the candidates, each with its score, in
\* strictly descending score order.
C1_RerankTopKDescending ==
    DistinctScoresAllEmbedded =>
        LET N == Len(inp.candidates)
            v == out.value
        IN /\ out.status = "ok"
           /\ Len(v) = (IF N < inp.top_k THEN N ELSE inp.top_k)
           /\ \A i \in 1..(Len(v) - 1) : v[i].score > v[i + 1].score
           /\ \A i \in 1..Len(v) : \E j \in 1..N :
                 v[i] = DictSet(inp.candidates[j], "score", ScoreOf(inp.query, inp.candidates[j]))

\* three candidates pooled in ascending score order, cut to the best two
C1_Witness ==
    /\ DistinctScoresAllEmbedded
    /\ inp.query = QueryEgfr
    /\ Len(inp.candidates) = 3
    /\ inp.top_k = 2
    /\ Len(out.value) = 2
    /\ out.value[1].text = inp.candidates[3].text
    /\ out.value[2].text = inp.candidates[2].text
    /\ out.value[1].score = 25

\* C7: rerank_results on an empty candidate list returns an empty list and
\* calls the embedder neither for the query nor for a passage.
C7_EmptyPoolNoEmbedding ==
    (out.status # "none" /\ inp.candidates = <<>>) =>
        /\ out.status = "ok"
        /\ out.value = <<>>
        /\ out.embed_calls = 0

\* an empty pool was reranked at a moment the remote embedding call would fail
C7_Witness ==
    /\ inp.candidates = <<>>
    /\ inp.top_k = 3
    /\ out.status = "ok"
    /\ out.fail_at = 1
    /\ out.embed_calls = 0

-----------------------------------------------------------------------------
(* Inputs of the search_wikipedia_chunks specification *)

Rep(c, n) == [i \in 1..n |-> c]

\* page bodies: five paragraphs of which four are long enough, a stub, and a
\* single long paragraph
PageLong ==
    Rep("e", 51) \o <<"\n">> \o Rep("m", 50) \o <<"\n", " ">> \o Rep("t", 51) \o <<" ", "\n">>
        \o Rep("x", 52) \o <<"\n">> \o Rep("o", 51)
PageStub == <<"s","t","u","b","\n","\n">> \o Rep(" ", 51)
PageOne == <<"\n">> \o Rep("m", 51)

WikiOutcomes == {WikiMissing, WikiError, WikiPage(PageLong), WikiPage(PageStub), WikiPage(PageOne)}

InitWiki ==
    /\ phase = "unit"
    /\ vector_db = NoDb
    /\ inp \in {[query |-> q, max_pages |-> m] :
                    q \in {QueryEgfr, QueryTumor, QueryOf, QueryBlank}, m \in 0..MaxPages}
    /\ out = NoCall
    /\ first = NoCall

SearchWiki ==
    /\ phase = "unit"
    /\ \E wiki \in [1..Len(extract_candidate_titles(inp.query, inp.max_pages)) -> WikiOutcomes] :
        out' = DictSet(search_wikipedia_chunks(inp.query, inp.max_pages, wiki), "wiki", wiki)
    /\ UNCHANGED <<phase, vector_db, inp, first>>

NextWiki == SearchWiki

SpecWiki == InitWiki /\ [][NextWiki]_vars

\* the passages of the titles whose lookup succeeded, in title order
PassagesOfSucceeded(titles, wiki) ==
    Flatten([i \in 1..Len(titles) |->
                IF wiki[i].kind = "page" THEN PageChunks(titles[i], wiki[i].text) ELSE <<>>])

\* C5: a lookup failure for one title does not abort search_wikipedia_chunks:
\* every candidate title is probed and the passages of the titles that
\* succeeded are returned.
C5_LookupFailureSkipped ==
    (out.status # "none") =>
        LET titles == extract_candidate_titles(inp.query, inp.max_pages) IN
        /\ out.status = "ok"
        /\ out.probed = Len(titles)
        /\ out.value = PassagesOfSucceeded(titles, out.wiki)

\* the positions of the first three lines of a page body whose stripped
\* length exceeds 50
LongLines(lines) == {k \in 1..Len(lines) : Len(str_strip(lines[k])) > 50}

FirstThree(S) == {k \in S : Cardinality({j \in S : j < k}) < 3}

\* the elements of a set of numbers in increasing order
Ascending(S) ==
    [i \in 1..Cardinality(S) |-> CHOOSE k \in S : Cardinality({j \in S : j < k}) = i - 1]

\* text and tag of the passages a topic contributes: its first three long
\* paragraphs in document order
TopicPassages(title, text) ==
    LET lines == str_split_lines(text)
        at == Ascending(FirstThree(LongLines(lines)))
    IN [i \in 1..Len(at) |->
            [text |-> lines[at[i]], source |-> "Wikipedia (" \o Str(title) \o ")"]]

\* C12: search_wikipedia_chunks probes at most max_pages topics, a missing
\* topic counting as probed; a call that returns yields, topic by topic, at
\* most 3 passages per existing topic: its first paragraphs of stripped length
\* above 50 in document order, tagged "Wikipedia (<Title>)"; so at most
\* 3 * max_pages passages in all.
C12_ProbesAndPassagesCapped ==
    (out.status # "none") =>
        LET titles == extract_candidate_titles(inp.query, inp.max_pages) IN
        /\ out.probed <= inp.max_pages
        /\ out.status = "ok" =>
            /\ out.probed = Len(titles)
            /\ Len(out.value) <= 3 * inp.max_pages
            /\ [i \in 1..Len(out.value) |->
                    [text |-> out.value[i].text, source |-> out.value[i].source]]
                 = Flatten([i \in 1..Len(titles) |->
                               IF out.wiki[i].kind = "page"
                               THEN TopicPassages(titles[i], out.wiki[i].text)
                               ELSE <<>>])

\* a query with three candidate titles and max_pages 2: the first topic does
\* not exist, the second has four long paragraphs of which three are returned
C12_Witness ==
    /\ out.status = "ok"
    /\ inp.query = QueryEgfr
    /\ inp.max_pages = 2
    /\ Len(extract_candidate_titles(inp.query, 3)) = 3
    /\ out.wiki = <<WikiMissing, WikiPage(PageLong)>>
    /\ out.probed = 2
    /\ Len(out.value) = 3
    /\ out.value[1].source = "Wikipedia (EGFR)"
    /\ out.value[2].text = <<" ">> \o Rep("t", 51) \o <<" ">>
    /\ out.value[3].text = Rep("x", 52)

-----------------------------------------------------------------------------
(* Inputs of the get_relevant_context specification *)

\* loaded indexes: two documents in either slot order, a row without text,
\* an index built with ids of its own, an index of another dimension
ContextDbs == {
    [loaded |-> TRUE, d |-> EmbDim,
     entries |-> <<[id |-> 0, vec |-> <<5, 0>>], [id |-> 1, vec |-> <<0, 5>>]>>,
     metadata |-> <<[text |-> TextEgfr, source |-> "PubMed"], [text |-> TextMutation]>>],
    [loaded |-> TRUE, d |-> EmbDim,
     entries |-> <<[id |-> 0, vec |-> <<0, 5>>], [id |-> 1, vec |-> <<5, 0>>]>>,
     metadata |-> <<[text |-> TextMutation, source |-> "PubMed"], [text |-> TextEgfr]>>],
    [loaded |-> TRUE, d |-> EmbDim,
     entries |-> <<[id |-> 0, vec |-> <<5, 0>>], [id |-> 1, vec |-> <<5, 0>>]>>,
     metadata |-> <<[title |-> "untitled"], [text |-> TextEgfr]>>],
    [loaded |-> TRUE, d |-> EmbDim,
     entries |-> <<[id |-> -2, vec |-> <<5, 0>>]>>,
     metadata |-> <<[text |-> TextEgfr], [text |-> TextMutation]>>],
    [loaded |-> TRUE, d |-> 3,
     entries |-> <<[id |-> 0, vec |-> <<5, 0, 0>>]>>,
     metadata |-> <<[text |-> TextEgfr]>>] }

ContextEnvs(query, db, use_wiki) ==
    {[fail_at |-> f, tie |-> t, wiki |-> w] :
        f \in 0..MaxFailAt,
        t \in (IF db.loaded THEN Perms(Len(db.entries)) ELSE {<<>>}),
        w \in (IF use_wiki
               THEN [1..Len(extract_candidate_titles(query, WikiPages)) -> WikiOutcomes]
               ELSE {<<>>})}

InitContext ==
    /\ phase = "unit"
    /\ vector_db \in ContextDbs \cup {NoDb}
    /\ inp \in {[query |-> q, use_wiki |-> u] :
                    q \in {QueryEgfr, QueryTumor, QueryOf, QueryBlank}, u \in BOOLEAN}
    /\ out = NoCall
    /\ first = NoCall

GetContext ==
    /\ phase = "unit"
    /\ \E env \in ContextEnvs(inp.query, vector_db, inp.use_wiki) :
        /\ out' = DictSet(get_relevant_context(inp.query, vector_db, inp.use_wiki, env),
                          "env", env)
        /\ vector_db' = vector_db_after(inp.query, vector_db, inp.use_wiki, env)
    /\ UNCHANGED <<phase, inp, first>>

NextContext == GetContext

SpecContext == InitContext /\ [][NextContext]_vars

\* C8: get_relevant_context returns "No relevant documents found." exactly
\* when no passage survives pooling and reranking, as it does when use_wiki
\* is false and no index is loaded; it never returns the empty string.
C8_SentinelIffNothingSurvives ==
    (out.status = "ok") =>
        /\ (out.value = NoDocuments) <=> (out.best = <<>>)
        /\ out.value # ""
        /\ (~inp.use_wiki /\ ~vector_db.loaded) => out.value = NoDocuments

\* the call without an index and without the encyclopedia
C8_Witness ==
    /\ out.status = "ok"
    /\ ~inp.use_wiki
    /\ ~vector_db.loaded
    /\ inp.query = QueryEgfr
    /\ out.value = NoDocuments
    /\ out.pool = <<>>

\* the embedder returned nothing for the query in search_faiss_index
QueryEmbeddingEmpty ==
    vector_db.loaded /\ (str_strip(inp.query) = <<>> \/ out.env.fail_at = 1)

\* the embedder returned nothing for the text of a pooled passage
PassageEmbeddingEmpty ==
    /\ ~QueryEmbeddingEmpty
    /\ str_strip(inp.query) # <<>>
    /\ out.env.fail_at = 0
    /\ \E i \in 1..Len(out.pool) : ~HasText(out.pool[i])

\* C4: when the embedder returns an empty result for the query or for the
\* text of a pooled passage, search_faiss_index and rerank_results raise no
\* indexing error and get_relevant_context completes and returns a string.
C4_EmptyEmbeddingHandled ==
    (out.status # "none" /\ (QueryEmbeddingEmpty \/ PassageEmbeddingEmpty)) =>
        /\ out.status = "ok"
        /\ out.value # ""

\* the scenario of the two-document index: slot a holds document A, whose
\* embedding is the query's, slot b holds document B, orthogonal to it; the
\* index holds the embeddings of the metadata texts
TwoDocScenario(a, b) ==
    /\ vector_db.loaded
    /\ Len(vector_db.entries) = 2
    /\ Len(vector_db.metadata) = 2
    /\ str_strip(inp.query) # <<>>
    /\ a # b
    /\ \A i \in 1..2 :
          /\ vector_db.entries[i].id = i - 1
          /\ HasText(vector_db.metadata[i])
          /\ vector_db.entries[i].vec = Normalize(embed_query(vector_db.metadata[i].text))
    /\ LET q == Normalize(embed_query(inp.query)) IN
          /\ Dot(q, q) > 0
          /\ vector_db.entries[a].vec = q
          /\ Dot(vector_db.entries[b].vec, q) = 0

\* the block of the document of slot i, tagged as an index passage
PaperBlock(i) == "[Paper_DB]\n" \o Str(str_strip(vector_db.metadata[i].text))

\* the place of a block in the output, 0 when it is not there
Pos(block) ==
    IF \E i \in 1..Len(out.blocks) : out.blocks[i] = block
    THEN CHOOSE i \in 1..Len(out.blocks) :
            /\ out.blocks[i] = block
            /\ \A j \in 1..(i - 1) : out.blocks[j] # block
    ELSE 0

\* C10 as stated: in the two-document scenario get_relevant_context renders
\* A, tagged "[Paper_DB]", and renders B after it.
C10_ARenderedBeforeB ==
    \A a, b \in 1..2 :
        (out.status = "ok" /\ TwoDocScenario(a, b)) =>
            /\ Pos(PaperBlock(a)) > 0
            /\ Pos(PaperBlock(b)) > Pos(PaperBlock(a))

\* C10 as amended: in the two-document scenario get_relevant_context renders
\* A, tagged "[Paper_DB]"; B is never rendered before A, and B is rendered
\* whenever the pool holds at most TopKFinal passages, as it does when
\* use_wiki is false.
C10_ARenderedBNeverBefore ==
    \A a, b \in 1..2 :
        (out.status = "ok" /\ TwoDocScenario(a, b)) =>
            /\ Pos(PaperBlock(a)) > 0
            /\ Pos(PaperBlock(b)) > 0 => Pos(PaperBlock(b)) > Pos(PaperBlock(a))
            /\ Len(out.pool) <= TopKFinal => Pos(PaperBlock(b)) > Pos(PaperBlock(a))
            /\ ~inp.use_wiki => Len(out.pool) <= TopKFinal

\* document A sits in the second slot and carries no source of its own,
\* document B carries one; both are rendered among encyclopedia passages
C10_Witness ==
    /\ out.status = "ok"
    /\ TwoDocScenario(2, 1)
    /\ inp.use_wiki
    /\ Len(out.pool) = 5
    /\ Pos(PaperBlock(2)) = 1
    /\ Pos(PaperBlock(1)) = 5

\* pool position i ranks ahead of pool position j: a higher score, or the
\* same score and an earlier place in the pool
RanksAhead(query, pool, i, j) ==
    \/ ScoreOf(query, pool[i]) > ScoreOf(query, pool[j])
    \/ ScoreOf(query, pool[i]) = ScoreOf(query, pool[j]) /\ i < j

\* the pool position that k - 1 positions rank ahead of
PoolPositionOfRank(query, pool, k) ==
    CHOOSE i \in 1..Len(pool) :
        Cardinality({j \in 1..Len(pool) : RanksAhead(query, pool, j, i)}) = k - 1

\* C13: the descending sort of rerank_results is stable: the reranked list
\* holds the pool's passages by score, passages of equal score in their pool
\* order, so that on a tie an index-sourced passage stands ahead of an
\* encyclopedia passage.
C13_TiesKeepPoolOrder ==
    (out.status = "ok") =>
        /\ out.best =
              [k \in 1..(IF Len(out.pool) < TopKFinal THEN Len(out.pool) ELSE TopKFinal) |->
                  DictSet(out.pool[PoolPositionOfRank(inp.query, out.pool, k)], "score",
                          ScoreOf(inp.query,
                                  out.pool[PoolPositionOfRank(inp.query, out.pool, k)]))]
        /\ \A k, l \in 1..Len(out.best) :
              (/\ out.best[k].source = "Paper_DB"
               /\ out.best[l].source # "Paper_DB"
               /\ out.best[k].score = out.best[l].score) => k < l

\* an index passage and an encyclopedia passage of the same score were
\* reranked below a later, better encyclopedia passage: the index passage
\* comes right before its equal
C13_Witness ==
    /\ out.status = "ok"
    /\ inp.use_wiki
    /\ \E k \in 2..(Len(out.best) - 1) :
          /\ out.best[k].source = "Paper_DB"
          /\ out.best[k + 1].source # "Paper_DB"
          /\ out.best[k].score = out.best[k + 1].score
          /\ out.best[1].source # "Paper_DB"
          /\ out.best[1].score > out.best[k].score

-----------------------------------------------------------------------------
(* run.py: load_resources and the query loop of main *)

QuitCommands == {"q", "quit", "exit"}

\* the lines typed at the prompt
Lines == {
    <<>>,
    <<" ">>,
    <<"q">>,
    <<" ","Q","U","I","T">>,
    <<"e","x","i","t"," ">>,
    QueryEgfr \o <<" ">>,
    QueryOf }

MainDbs == {db \in ContextDbs : db.d = EmbDim /\ \A i \in 1..Len(db.entries) : db.entries[i].id >= 0}

MainWikiOutcomes == {WikiMissing, WikiError, WikiPage(PageOne)}

MainEnvs(query, db) ==
    {[fail_at |-> f, tie |-> t, wiki |-> w] :
        f \in 0..MaxFailAt,
        t \in (IF db.loaded THEN Perms(Len(db.entries)) ELSE {<<>>}),
        w \in [1..Len(extract_candidate_titles(query, WikiPages)) -> MainWikiOutcomes]}

Report(status, error, query, context) ==
    [status |-> status, error |-> error, query |-> query, context |-> context]

Summary(report) == [status |-> report.status, error |-> report.error]

\* `except Exception as e: print(...)` ends the iteration by breaking out
OnException_Break(e) == "ended"

\* `except Exception as e: print(...)`: the while loop goes on
OnException(e) == "loop"

Init ==
    /\ phase = "start"
    /\ vector_db = NoDb
    /\ inp = [event |-> "none", line |-> <<>>]
    /\ out = NoCall
    /\ first = NoCall

\* load_resources(): the embedder needs its API key; the index is optional
LoadResources ==
    /\ phase = "start"
    /\ \E embedder_ok \in BOOLEAN, files_exist \in BOOLEAN, load_ok \in BOOLEAN, db \in MainDbs :
        IF ~embedder_ok
        THEN phase' = "exit1" /\ vector_db' = vector_db
        ELSE /\ phase' = "loop"
             /\ vector_db' = IF files_exist /\ load_ok THEN db ELSE NoDb
    /\ UNCHANGED <<inp, out, first>>

\* where the while loop stands after an iteration that produced report r
AfterIteration(r) ==
    CASE r.status = "error" -> OnException(r.error)
      [] r.status \in {"quit", "interrupt"} -> "ended"
      [] OTHER -> "loop"

\* one pass of the while loop whose iteration produces the report r
IterationOutcome(event, line, r) ==
    /\ inp' = [event |-> event, line |-> line]
    /\ out' = r
    /\ first' = IF first.status = "none" THEN Summary(r) ELSE first
    /\ phase' = AfterIteration(r)

\* a pass of the while loop that makes no call on vector_db
Iteration(event, line, r) ==
    /\ IterationOutcome(event, line, r)
    /\ UNCHANGED vector_db

\* input() returns a line that is empty once stripped: continue
ReadBlank ==
    /\ phase = "loop"
    /\ \E line \in Lines :
        /\ str_strip(line) = <<>>
        /\ Iteration("line", line, Report("skipped", "", <<>>, ""))

\* input() returns q, quit or exit in any case: break
ReadQuit ==
    /\ phase = "loop"
    /\ \E line \in Lines :
        /\ str_strip(line) # <<>>
        /\ Str(str_lower(str_strip(line))) \in QuitCommands
        /\ Iteration("line", line, Report("quit", "", str_strip(line), ""))

\* Ctrl-C at the prompt or while a query is processed: break
Interrupt ==
    /\ phase = "loop"
    /\ Iteration("KeyboardInterrupt", <<>>, Report("interrupt", "KeyboardInterrupt", <<>>, ""))

\* input() raises EOFError, an Exception: reported, the loop goes on
ReadEOF ==
    /\ phase = "loop"
    /\ Iteration("EOFError", <<>>, Report("error", "EOFError", <<>>, ""))

\* the try body of main for a query: retrieval, then the debate, then the
\* report is printed; debate is what run_multidisciplinary_debate does
ReportOf(user_query, ctx, debate) ==
    IF ctx.status # "ok" THEN Report("error", ctx.status, user_query, "")
    ELSE IF debate # "ok" THEN Report("error", debate, user_query, ctx.value)
    ELSE Report("ok", "", user_query, ctx.value)

QueryReport(user_query, db, env, debate) ==
    ReportOf(user_query, get_relevant_context(user_query, db, TRUE, env), debate)

RunQuery ==
    /\ phase = "loop"
    /\ \E line \in Lines :
        /\ str_strip(line) # <<>>
        /\ Str(str_lower(str_strip(line))) \notin QuitCommands
        /\ \E env \in MainEnvs(str_strip(line), vector_db), debate \in {"ok", "RuntimeError"} :
            /\ IterationOutcome("line", line,
                                QueryReport(str_strip(line), vector_db, env, debate))
            /\ vector_db' = vector_db_after(str_strip(line), vector_db, TRUE, env)

Next == LoadResources \/ ReadBlank \/ ReadQuit \/ Interrupt \/ ReadEOF \/ RunQuery

Spec == Init /\ [][Next]_vars

\* C6: the query loop ends only on a quit command or a keyboard interrupt;
\* an iteration that ends in an error reports it and leaves the loop running
\* for the next query.
C6_LoopSurvivesQueryFailure ==
    [][phase = "loop" =>
          /\ phase' # "loop" => out'.status \in {"quit", "interrupt"}
          /\ out'.status = "error" => (phase' = "loop" /\ out'.error # "")]_vars

\* the first query failed with the embedder's IndexError and a later query
\* was answered
C6_Witness ==
    /\ phase = "loop"
    /\ first = [status |-> "error", error |-> "IndexError"]
    /\ out.status = "ok"
    /\ out.query = QueryEgfr
    /\ out.context # NoDocuments

\* C11: once the index is loaded, no pass of the query loop changes it: the
\* metadata rows, their number and order and the index entries stay what
\* load_resources loaded, whatever the queries stamp or score.
C11_LoadedIndexNeverChanges ==
    [][phase = "loop" => vector_db' = vector_db]_vars

\* a second query was answered from an index whose first row came with a
\* source of its own: the passage is rendered with the stamped tag, and the
\* row still has its source and no score
C11_Witness ==
    /\ phase = "loop"
    /\ first.status = "ok"
    /\ out.status = "ok"
    /\ out.query = QueryEgfr
    /\ vector_db.loaded
    /\ vector_db.metadata[1] = [text |-> TextEgfr, source |-> "PubMed"]
    /\ out.context = "[Paper_DB]\n" \o Str(TextEgfr) \o "\n\n[Paper_DB]\n"
                        \o Str(str_strip(TextMutation))

====
